---- MODULE Spec2Model ----
(***************************************************************************)
(* Model of "pi calculator.cpp": the modular arithmetic kernel, the        *)
(* per-prime summation nine_digits_of_Pi::at, the driver calc_pi, and the  *)
(* click / unload handlers of main with the asynchronous worker.           *)
(***************************************************************************)
EXTENDS Integers, Sequences, FiniteSets, TLC

VARIABLES
    \* ---- inv_mod call (arguments, return value, position)
    inv_x, inv_y, inv_r, inv_pc,
    \* ---- pow_mod call
    pow_a, pow_b, pow_m, pow_r, pow_pc,
    \* ---- nine_digits_of_Pi::at: its argument and locals
    at_n, at_N, at_a, at_vmax, at_av, at_s, at_num, at_den, at_v, at_kq,
    at_kq2, at_k, at_sum, at_pc, at_ret,
    \* ---- calc_pi: argument, locals, the calls it made, its return value
    digits, i, pi, calc_pc, calc_ret, reported, answers, at_calls,
    \* ---- main: widgets, the shared flag, the future, the GUI thread, tasks
    btn_enabled, unloaded, pi_future, old_future, gui, launched,
    task_pc, task_digits, task_i, task_pi, txt, prg_amount, prg_value

invVars  == <<inv_x, inv_y, inv_r, inv_pc>>
powVars  == <<pow_a, pow_b, pow_m, pow_r, pow_pc>>
atVars   == <<at_n, at_N, at_a, at_vmax, at_av, at_s, at_num, at_den, at_v,
              at_kq, at_kq2, at_k, at_sum, at_pc, at_ret>>
calcVars == <<digits, i, pi, calc_pc, calc_ret, reported, answers, at_calls>>
guiVars  == <<btn_enabled, unloaded, pi_future, old_future, gui, launched,
              task_pc, task_digits, task_i, task_pi, txt, prg_amount,
              prg_value>>
vars     == <<invVars, powVars, atVars, calcVars, guiVars>>

\* everything but one part
notInvVars == <<powVars, atVars, calcVars, guiVars>>
notPowVars == <<invVars, atVars, calcVars, guiVars>>
notAtVars == <<invVars, powVars, calcVars, guiVars>>
notCalcVars == <<invVars, powVars, atVars, guiVars>>
notGuiVars == <<invVars, powVars, atVars, calcVars>>

\* ------------------------------------------------------------------ bounds
MaxMod    == 24   \* inv_mod is called with x, y in 1..MaxMod
MaxBase   == 6    \* pow_mod is called with a in 0..MaxBase
MaxExp    == 6    \*                        b in 0..MaxExp
MaxPowMod == 6    \*                        m in 1..MaxPowMod
MaxIndex  == 10   \* at is called with n in 1..MaxIndex
MaxDigits == 315  \* calc_pi is called with digits in 0..MaxDigits
MaxSpin   == 10   \* the spinbox holds 1..MaxSpin when a task reads it
MaxTasks  == 3    \* at most MaxTasks clicks are delivered

\* ------------------------------------------------------- C++ int arithmetic
Abs(x) == IF x < 0 THEN -x ELSE x

\* x / y of C++: the quotient truncated towards zero
CDiv(x, y) ==
    IF (x >= 0) = (y > 0) THEN Abs(x) \div Abs(y) ELSE -(Abs(x) \div Abs(y))

\* x % y of C++: the remainder has the sign of x
CRem(x, y) == x - y * CDiv(x, y)

Min(x, y) == IF x < y THEN x ELSE y

RECURSIVE GCD(_, _)
GCD(x, y) == IF y = 0 THEN x ELSE GCD(y, x % y)

RECURSIVE IPow(_, _)
IPow(x, e) == IF e = 0 THEN 1 ELSE x * IPow(x, e - 1)

\* ----------------------------------------------------------------- kernel
mul_mod(x, y, m) == CRem(x * y, m)

\* the do-while of inv_mod: one round, then the test u != 0
RECURSIVE inv_mod_loop(_, _, _, _)
inv_mod_loop(u, w, aa, c) ==
    LET q  == CDiv(w, u)
        c2 == aa - q * c
        a2 == c
        u2 == w - q * u
        w2 == u
    IN  IF u2 # 0 THEN inv_mod_loop(u2, w2, a2, c2) ELSE a2

\* a = a % y; if (a < 0) a = y + a;  without the second statement
inv_mod_normalise_unsigned(r, y) == CRem(r, y)

inv_mod_normalise(r, y) ==
    LET m == CRem(r, y) IN IF m < 0 THEN y + m ELSE m

inv_mod(x, y) == inv_mod_normalise(inv_mod_loop(x, y, 0, 1), y)

\* the while (true) of pow_mod; b & 1 and b >> 1 on a non-negative int
RECURSIVE pow_mod_loop(_, _, _, _)
pow_mod_loop(r, aa, b, m) ==
    LET r2 == IF b % 2 # 0 THEN mul_mod(r, aa, m) ELSE r
        b2 == b \div 2
    IN  IF b2 = 0 THEN r2 ELSE pow_mod_loop(r2, mul_mod(aa, aa, m), b2, m)

pow_mod(x, b, m) == pow_mod_loop(1, x, b, m)

\* ------------------------------------------------- idle values of each part
InvIdle == inv_x = 1 /\ inv_y = 1 /\ inv_r = 0 /\ inv_pc = "idle"
PowIdle == pow_a = 0 /\ pow_b = 0 /\ pow_m = 1 /\ pow_r = 0 /\ pow_pc = "idle"

\* ------------------------------------------------------- inv_mod, one call
InvInit ==
    /\ inv_x \in 1..MaxMod
    /\ inv_y \in 1..MaxMod
    /\ inv_r = 0
    /\ inv_pc = "call"

InvCall ==
    /\ inv_pc = "call"
    /\ inv_r' = inv_mod(inv_x, inv_y)
    /\ inv_pc' = "done"
    /\ UNCHANGED <<inv_x, inv_y>>
    /\ UNCHANGED notInvVars

\* ------------------------------------------------------- pow_mod, one call
PowInit ==
    /\ pow_a \in 0..MaxBase
    /\ pow_b \in 0..MaxExp
    /\ pow_m \in 1..MaxPowMod
    /\ pow_r = 0
    /\ pow_pc = "call"

PowCall ==
    /\ pow_pc = "call"
    /\ pow_r' = pow_mod(pow_a, pow_b, pow_m)
    /\ pow_pc' = "done"
    /\ UNCHANGED <<pow_a, pow_b, pow_m>>
    /\ UNCHANGED notPowVars

\* ------------------------------------------------------------ prime iterator
\* the for loop of not_prime: i = 3, 5, ... while i <= (int)sqrt(n)
RECURSIVE not_prime_loop(_, _)
not_prime_loop(m, d) ==
    IF d * d > m THEN FALSE
    ELSE IF m % d = 0 THEN TRUE
    ELSE not_prime_loop(m, d + 2)

not_prime(m) == IF m % 2 = 0 THEN TRUE ELSE not_prime_loop(m, 3)

\* while (not_prime(++n));
RECURSIVE next_prime(_)
next_prime(m) == IF not_prime(m + 1) THEN next_prime(m + 1) ELSE m + 1

\* ------------------------------------------------- nine_digits_of_Pi::at
\* log(10)/log(2) = 3.321928094..., in millionths
Log2Of10Micro == 3321928

\* 1e9 of "sum * 1e9": one limb of the fixed-point accumulator
Limb == 1000000000

\* N = (int)((n + 20) * log(10) / log(2))
NTerms(m) == ((m + 20) * Log2Of10Micro) \div 1000000

\* vmax = (int)(log(2N) / log(a)): the number of times p divides into x
RECURSIVE VMax(_, _)
VMax(x, p) == IF x < p THEN 0 ELSE 1 + VMax(x \div p, p)

\* av = 1; for (i = 0; i < vmax; ++i) av *= a;
PrimePower(p, e) == IPow(p, e)

\* the loop below with its body run once, whatever is left in t
strip_once(t, val, p, d) == <<CDiv(t, p), val + d>>

\* do { t = t / a; v += d; } while ((t % a) == 0);   returns <<t, v>>
RECURSIVE strip(_, _, _, _)
strip(t, val, p, d) ==
    LET t2 == CDiv(t, p)
        v2 == val + d
    IN  IF CRem(t2, p) = 0 THEN strip(t2, v2, p, d) ELSE <<t2, v2>>

\* lines 134-146: t = k with the factors of a removed; v and kq updated
NumStep(kk, val, q, p) ==
    IF q >= p
    THEN LET r == strip(kk, val, p, -1) IN [t |-> r[1], v |-> r[2], kq |-> 1]
    ELSE [t |-> kk, v |-> val, kq |-> q + 1]

\* lines 149-162, 165 with the test kq2 == a left out
DenStepNoTest(kk, val, q2, p) ==
    IF q2 >= p
    THEN LET r == strip(2 * kk - 1, val, p, 1)
         IN  [t |-> r[1], v |-> r[2], kq2 |-> q2 - p + 2]
    ELSE [t |-> 2 * kk - 1, v |-> val, kq2 |-> q2 + 2]

\* lines 149-162, 165: t = 2k-1 with the factors of a removed; v, kq2 updated
DenStep(kk, val, q2, p) ==
    IF q2 >= p
    THEN LET r == IF q2 = p THEN strip(2 * kk - 1, val, p, 1)
                  ELSE <<2 * kk - 1, val>>
         IN  [t |-> r[1], v |-> r[2], kq2 |-> q2 - p + 2]
    ELSE [t |-> 2 * kk - 1, v |-> val, kq2 |-> q2 + 2]

\* for (i = v; i < vmax; ++i) t = mul_mod(t, a, av);
RECURSIVE scale(_, _, _, _, _)
scale(t, j, e, p, m) ==
    IF j < e THEN scale(mul_mod(t, p, m), j + 1, e, p, m) ELSE t

\* lines 169-172: the term of iteration k
Term(dd, nn, kk, val, e, p, m) ==
    scale(mul_mod(mul_mod(inv_mod(dd, m), nn, m), kk, m), val, e, p, m)

\* lines 173-174
AddMod(acc, t, m) == IF acc + t >= m THEN acc + t - m ELSE acc + t

\* cnt groups of three decimal digits of r / m, by long division
RECURSIVE FracLimb(_, _, _, _)
FracLimb(r, m, cnt, acc) ==
    IF cnt = 0 THEN <<acc, r>>
    ELSE FracLimb((r * 1000) % m, m, cnt - 1, acc * 1000 + (r * 1000) \div m)

\* b / (double)av, b < av, as 18 decimal digits <<high nine, low nine>>
Frac18(b, m) ==
    LET h == FracLimb(b, m, 3, 0)
        l == FracLimb(h[2], m, 3, 0)
    IN  <<h[1], l[1]>>

\* fmod(sum + x, 1.0) on the 18-digit accumulator
SumAdd(acc, x) ==
    LET lo == acc[2] + x[2]
        hi == acc[1] + x[1] + lo \div Limb
    IN  <<hi % Limb, lo % Limb>>

\* line 178 with n in place of n - 1
ScaleByTenOff(acc, m, idx) == mul_mod(acc, pow_mod(10, idx, m), m)

\* lines 178-179: mul_mod(s, pow_mod(10, n - 1, av), av)
ScaleByTen(acc, m, idx) == mul_mod(acc, pow_mod(10, idx - 1, m), m)

AtIdle ==
    /\ at_n = 0 /\ at_N = 0 /\ at_a = 0 /\ at_vmax = 0 /\ at_av = 0
    /\ at_s = 0 /\ at_num = 0 /\ at_den = 0 /\ at_v = 0 /\ at_kq = 0
    /\ at_kq2 = 0 /\ at_k = 0 /\ at_sum = <<0, 0>> /\ at_pc = "idle"
    /\ at_ret = 0

\* lines 112-116: entry of at(n), before the first test a <= 2 * N
AtInit ==
    /\ at_n \in 1..MaxIndex
    /\ at_N = NTerms(at_n)
    /\ at_a = 3
    /\ at_sum = <<0, 0>>
    /\ at_pc = "prime"
    /\ at_vmax = 0 /\ at_av = 0 /\ at_s = 0 /\ at_num = 0 /\ at_den = 0
    /\ at_v = 0 /\ at_kq = 0 /\ at_kq2 = 0 /\ at_k = 0 /\ at_ret = 0

\* lines 116-132: a <= 2N holds; the locals of this prime are set up
AtPrime ==
    /\ at_pc = "prime"
    /\ at_a <= 2 * at_N
    /\ at_vmax' = VMax(2 * at_N, at_a)
    /\ at_av' = PrimePower(at_a, VMax(2 * at_N, at_a))
    /\ at_s' = 0 /\ at_num' = 1 /\ at_den' = 1 /\ at_v' = 0
    /\ at_kq' = 1 /\ at_kq2' = 1 /\ at_k' = 1
    /\ at_pc' = "k"
    /\ UNCHANGED <<at_n, at_N, at_a, at_sum, at_ret>>
    /\ UNCHANGED notAtVars

\* lines 132-176: one iteration of the k loop
AtK ==
    /\ at_pc = "k"
    /\ at_k <= at_N
    /\ LET ns  == NumStep(at_k, at_v, at_kq, at_a)
           ds  == DenStep(at_k, ns.v, at_kq2, at_a)
           nu  == mul_mod(at_num, ns.t, at_av)
           de  == mul_mod(at_den, ds.t, at_av)
       IN  /\ at_kq' = ns.kq
           /\ at_num' = nu
           /\ at_kq2' = ds.kq2
           /\ at_den' = de
           /\ at_v' = ds.v
           /\ at_s' = IF ds.v > 0
                      THEN AddMod(at_s,
                                  Term(de, nu, at_k, ds.v, at_vmax, at_a, at_av),
                                  at_av)
                      ELSE at_s
    /\ at_k' = at_k + 1
    /\ UNCHANGED <<at_n, at_N, at_a, at_vmax, at_av, at_sum, at_pc, at_ret>>
    /\ UNCHANGED notAtVars

\* lines 178-179 and the step a = next_prime(a) of line 116
AtPrimeEnd ==
    /\ at_pc = "k"
    /\ at_k > at_N
    /\ at_sum' = SumAdd(at_sum, Frac18(ScaleByTen(at_s, at_av, at_n), at_av))
    /\ at_a' = next_prime(at_a)
    /\ at_pc' = "prime"
    /\ UNCHANGED <<at_n, at_N, at_vmax, at_av, at_s, at_num, at_den, at_v,
                   at_kq, at_kq2, at_k, at_ret>>
    /\ UNCHANGED notAtVars

\* line 182: a > 2N; return static_cast<int>(sum * 1e9)
AtReturn ==
    /\ at_pc = "prime"
    /\ at_a > 2 * at_N
    /\ at_ret' = at_sum[1]
    /\ at_pc' = "done"
    /\ UNCHANGED <<at_n, at_N, at_a, at_vmax, at_av, at_s, at_num, at_den,
                   at_v, at_kq, at_kq2, at_k, at_sum>>
    /\ UNCHANGED notAtVars

\* ----------------------------------------------------------------- calc_pi
\* the step of the for loop and the longest block: "i += 9", size_t(9)
BlockLen == 9

\* the values at(1), at(10), at(19), ... returns: the decimal digits of pi in
\* blocks of nine, read as an int (the 35th block is 006606315)
AtTable ==
    <<141592653, 589793238, 462643383, 279502884, 197169399, 375105820,
      974944592, 307816406, 286208998, 628034825, 342117067, 982148086,
      513282306, 647093844, 609550582, 231725359, 408128481, 117450284,
      102701938, 521105559, 644622948, 954930381, 964428810, 975665933,
      446128475, 648233786, 783165271, 201909145, 648566923, 460348610,
      454326648, 213393607, 260249141, 273724587, 6606315, 588174881,
      520920962, 829254091, 715364367, 892590360>>

\* nine_digits_of_Pi::at(idx) for idx = 1, 10, 19, ...
at_value(idx) == AtTable[(idx - 1) \div 9 + 1]

DigitChars == <<"0", "1", "2", "3", "4", "5", "6", "7", "8", "9">>

\* std::to_string of a non-negative int: no sign, no leading zeros
RECURSIVE to_string(_)
to_string(x) ==
    IF x < 10 THEN <<DigitChars[x + 1]>>
    ELSE Append(to_string(x \div 10), DigitChars[(x % 10) + 1])

\* str.substr(0, count): at most count characters, fewer if str is shorter
substr0(str, count) == SubSeq(str, 1, Min(count, Len(str)))

\* count = (std::min)(digits - i, size_t(9))
BlockCount(d, at) == Min(d - at, BlockLen)

\* the argument of progress with the block length in place of count
ProgressArgFull(at, count) == at + BlockLen

\* the argument of progress: i + count
ProgressArg(at, count) == at + count

\* the non-ASYNC variant: the callback's answer is not looked at
StopsNever(cont) == FALSE

\* if (!progress(i + count)) return {};
Stops(cont) == ~cont

CalcIdle ==
    /\ digits = 0 /\ i = 0 /\ pi = <<>> /\ calc_pc = "idle" /\ calc_ret = <<>>
    /\ reported = <<>> /\ answers = <<>> /\ at_calls = <<>>

\* line 190 and the initialisation of the for loop
CalcInit ==
    /\ digits \in 0..MaxDigits
    /\ i = 0
    /\ pi = <<"3", ".">>
    /\ calc_pc = "loop"
    /\ calc_ret = <<>>
    /\ reported = <<>> /\ answers = <<>> /\ at_calls = <<>>

\* lines 191-195: i < digits; the block is computed and appended
CalcBlock ==
    /\ calc_pc = "loop"
    /\ i < digits
    /\ LET nine_digits == at_value(i + 1)
       IN  pi' = pi \o substr0(to_string(nine_digits), BlockCount(digits, i))
    /\ at_calls' = Append(at_calls, i + 1)
    /\ calc_pc' = "progress"
    /\ UNCHANGED <<digits, i, calc_ret, reported, answers>>
    /\ UNCHANGED notCalcVars

\* lines 198-199 and the step i += 9: the callback is invoked and answers
CalcProgress ==
    /\ calc_pc = "progress"
    /\ \E cont \in BOOLEAN :
          /\ reported' = Append(reported, ProgressArg(i, BlockCount(digits, i)))
          /\ answers' = Append(answers, cont)
          /\ IF Stops(cont)
             THEN /\ calc_ret' = <<>>
                  /\ calc_pc' = "done"
                  /\ i' = i
             ELSE /\ calc_ret' = calc_ret
                  /\ calc_pc' = "loop"
                  /\ i' = i + BlockLen
    /\ UNCHANGED <<digits, pi, at_calls>>
    /\ UNCHANGED notCalcVars

\* line 202: i >= digits; return pi
CalcReturn ==
    /\ calc_pc = "loop"
    /\ i >= digits
    /\ calc_ret' = pi
    /\ calc_pc' = "done"
    /\ UNCHANGED <<digits, i, pi, reported, answers, at_calls>>
    /\ UNCHANGED notCalcVars

\* ------------------------------------------------------ main: the handlers
Tasks == 1..MaxTasks

\* statements 258-269 of the task: it still reads or writes the widgets
Body == {"start", "at", "progress", "caption", "enable"}

\* the task has been launched and its future is not ready yet
Alive == Body \cup {"return"}

\* the click handler without its first statement
click_btn_enabled_kept == TRUE

\* line 255: btn.enabled(false)
click_btn_enabled == FALSE

\* the unload handler without the wait
unload_next_nowait(enabled) == "closed"

\* lines 276-282: where the unload handler goes after reading btn.enabled()
unload_next(enabled) == IF enabled THEN "closed" ELSE "unload_wait"

\* line 278: unloaded = true, on the branch btn.enabled() == false
unload_flag(enabled, flag) == IF enabled THEN flag ELSE TRUE

\* line 265: return !unloaded.load()
callback_answer(flag) == ~flag

\* a future without shared state, or one whose task has finished
FutureReady(f) == IF f = 0 THEN TRUE ELSE task_pc[f] = "exited"

GuiIdle ==
    /\ btn_enabled = TRUE /\ unloaded = FALSE /\ pi_future = 0
    /\ old_future = 0 /\ gui = "off" /\ launched = 0
    /\ task_pc = [w \in Tasks |-> "none"]
    /\ task_digits = [w \in Tasks |-> 0]
    /\ task_i = [w \in Tasks |-> 0]
    /\ task_pi = [w \in Tasks |-> "none"]
    /\ txt = "empty" /\ prg_amount = 0 /\ prg_value = 0

\* lines 227-250, 301-309: the widgets exist, the event loop runs
GuiInit ==
    /\ btn_enabled = TRUE /\ unloaded = FALSE /\ pi_future = 0
    /\ old_future = 0 /\ gui = "idle" /\ launched = 0
    /\ task_pc = [w \in Tasks |-> "none"]
    /\ task_digits = [w \in Tasks |-> 0]
    /\ task_i = [w \in Tasks |-> 0]
    /\ task_pi = [w \in Tasks |-> "none"]
    /\ txt = "empty" /\ prg_amount = 0 /\ prg_value = 0

\* lines 252-257: a click on the enabled button; the button is disabled and
\* std::async starts the next task; the assignment to pi_future is pending
Click ==
    /\ gui = "idle"
    /\ btn_enabled
    /\ launched < MaxTasks
    /\ btn_enabled' = click_btn_enabled
    /\ launched' = launched + 1
    /\ task_pc' = [task_pc EXCEPT ![launched + 1] = "start"]
    /\ old_future' = pi_future
    /\ pi_future' = launched + 1
    /\ gui' = "click_assign"
    /\ UNCHANGED <<unloaded, task_digits, task_i, task_pi, txt, prg_amount,
                   prg_value>>
    /\ UNCHANGED notGuiVars

\* line 257: the move assignment releases the previous shared state, which
\* blocks until the previous task has finished; then the handler returns
ClickReturn ==
    /\ gui = "click_assign"
    /\ FutureReady(old_future)
    /\ old_future' = 0
    /\ gui' = "idle"
    /\ UNCHANGED <<btn_enabled, unloaded, pi_future, launched, task_pc,
                   task_digits, task_i, task_pi, txt, prg_amount, prg_value>>
    /\ UNCHANGED notGuiVars

\* lines 258-261 and the entry of calc_pi (lines 190-191)
TaskStart(w) ==
    /\ task_pc[w] = "start"
    /\ \E d \in 1..MaxSpin :
          /\ task_digits' = [task_digits EXCEPT ![w] = d]
          /\ prg_amount' = d
    /\ prg_value' = 0
    /\ task_i' = [task_i EXCEPT ![w] = 0]
    /\ task_pc' = [task_pc EXCEPT ![w] = "at"]
    /\ UNCHANGED <<btn_enabled, unloaded, pi_future, old_future, gui,
                   launched, task_pi, txt>>
    /\ UNCHANGED notGuiVars

\* lines 192-195 inside the task: one block is computed and appended
TaskBlock(w) ==
    /\ task_pc[w] = "at"
    /\ task_pc' = [task_pc EXCEPT ![w] = "progress"]
    /\ UNCHANGED <<btn_enabled, unloaded, pi_future, old_future, gui,
                   launched, task_digits, task_i, task_pi, txt, prg_amount,
                   prg_value>>
    /\ UNCHANGED notGuiVars

\* lines 198-202 with the callback of lines 262-266
TaskProgress(w) ==
    /\ task_pc[w] = "progress"
    /\ prg_value' = ProgressArg(task_i[w], BlockCount(task_digits[w], task_i[w]))
    /\ IF Stops(callback_answer(unloaded))
       THEN /\ task_pi' = [task_pi EXCEPT ![w] = "empty"]
            /\ task_pc' = [task_pc EXCEPT ![w] = "caption"]
            /\ task_i' = task_i
       ELSE /\ task_i' = [task_i EXCEPT ![w] = @ + BlockLen]
            /\ IF task_i[w] + BlockLen < task_digits[w]
               THEN /\ task_pc' = [task_pc EXCEPT ![w] = "at"]
                    /\ task_pi' = task_pi
               ELSE /\ task_pc' = [task_pc EXCEPT ![w] = "caption"]
                    /\ task_pi' = [task_pi EXCEPT ![w] = "digits"]
    /\ UNCHANGED <<btn_enabled, unloaded, pi_future, old_future, gui,
                   launched, task_digits, txt, prg_amount>>
    /\ UNCHANGED notGuiVars

\* line 268: txt.caption(pi)
TaskCaption(w) ==
    /\ task_pc[w] = "caption"
    /\ txt' = task_pi[w]
    /\ task_pc' = [task_pc EXCEPT ![w] = "enable"]
    /\ UNCHANGED <<btn_enabled, unloaded, pi_future, old_future, gui,
                   launched, task_digits, task_i, task_pi, prg_amount,
                   prg_value>>
    /\ UNCHANGED notGuiVars

\* line 269: btn.enabled(true)
TaskEnable(w) ==
    /\ task_pc[w] = "enable"
    /\ btn_enabled' = TRUE
    /\ task_pc' = [task_pc EXCEPT ![w] = "return"]
    /\ UNCHANGED <<unloaded, pi_future, old_future, gui, launched,
                   task_digits, task_i, task_pi, txt, prg_amount, prg_value>>
    /\ UNCHANGED notGuiVars

\* line 270: the lambda returns, its locals are destroyed, the future is ready
TaskExit(w) ==
    /\ task_pc[w] = "return"
    /\ task_pc' = [task_pc EXCEPT ![w] = "exited"]
    /\ UNCHANGED <<btn_enabled, unloaded, pi_future, old_future, gui,
                   launched, task_digits, task_i, task_pi, txt, prg_amount,
                   prg_value>>
    /\ UNCHANGED notGuiVars

\* lines 273-281: the unload event; the handler reads the button, sets the
\* flag and starts to wait, or returns at once
Unload ==
    /\ gui = "idle"
    /\ unloaded' = unload_flag(btn_enabled, unloaded)
    /\ gui' = unload_next(btn_enabled)
    /\ UNCHANGED <<btn_enabled, pi_future, old_future, launched, task_pc,
                   task_digits, task_i, task_pi, txt, prg_amount, prg_value>>
    /\ UNCHANGED notGuiVars

\* lines 281-283: pi_future.wait() returns, then the handler
UnloadReturn ==
    /\ gui = "unload_wait"
    /\ FutureReady(pi_future)
    /\ gui' = "closed"
    /\ UNCHANGED <<btn_enabled, unloaded, pi_future, old_future, launched,
                   task_pc, task_digits, task_i, task_pi, txt, prg_amount,
                   prg_value>>
    /\ UNCHANGED notGuiVars

\* lines 309-310: exec() returns; the destructor of pi_future blocks until
\* the task has finished; then the widgets are destroyed
MainExit ==
    /\ gui = "closed"
    /\ FutureReady(pi_future)
    /\ gui' = "released"
    /\ UNCHANGED <<btn_enabled, unloaded, pi_future, old_future, launched,
                   task_pc, task_digits, task_i, task_pi, txt, prg_amount,
                   prg_value>>
    /\ UNCHANGED notGuiVars

\* ---------------------------------------------------------- specifications
InvNext == InvCall

InitInv == InvInit /\ PowIdle /\ AtIdle /\ CalcIdle /\ GuiIdle

SpecInv == InitInv /\ [][InvNext]_vars

PowNext == PowCall

InitPow == InvIdle /\ PowInit /\ AtIdle /\ CalcIdle /\ GuiIdle

SpecPow == InitPow /\ [][PowNext]_vars

AtNext ==
    \/ AtPrime
    \/ AtK
    \/ AtPrimeEnd
    \/ AtReturn

InitAt == InvIdle /\ PowIdle /\ AtInit /\ CalcIdle /\ GuiIdle

SpecAt == InitAt /\ [][AtNext]_vars

CalcNext ==
    \/ CalcBlock
    \/ CalcProgress
    \/ CalcReturn

InitCalc == InvIdle /\ PowIdle /\ AtIdle /\ CalcInit /\ GuiIdle

SpecCalc == InitCalc /\ [][CalcNext]_vars

GuiNext ==
    \/ Click
    \/ ClickReturn
    \/ \E w \in Tasks : TaskStart(w)
    \/ \E w \in Tasks : TaskBlock(w)
    \/ \E w \in Tasks : TaskProgress(w)
    \/ \E w \in Tasks : TaskCaption(w)
    \/ \E w \in Tasks : TaskEnable(w)
    \/ \E w \in Tasks : TaskExit(w)
    \/ Unload
    \/ UnloadReturn
    \/ MainExit

InitGui == InvIdle /\ PowIdle /\ AtIdle /\ CalcIdle /\ GuiInit

SpecGui == InitGui /\ [][GuiNext]_vars

\* ------------------------------------------------------------- properties
AllTrue(seq) == \A j \in 1..Len(seq) : seq[j]

IsDigitChar(c) == \E j \in 1..10 : DigitChars[j] = c

\* a^b mod m by b multiplications
RECURSIVE RefPow(_, _, _)
RefPow(x, e, m) == IF e = 0 THEN 1 % m ELSE (RefPow(x, e - 1, m) * x) % m

IsOddPrime(p) == p > 2 /\ \A d \in 2..(p - 1) : p % d # 0

AliveTasks == {w \in Tasks : task_pc[w] \in Alive}

BodyTasks == {w \in Tasks : task_pc[w] \in Body}

\* C1: with a callback that always returns true, calc_pi(d) returns "3."
\* followed by exactly d decimal digits, also when a block value is below
\* 100000000.
C1_Claim ==
    (calc_pc = "done" /\ AllTrue(answers)) =>
        /\ Len(calc_ret) = 2 + digits
        /\ calc_ret[1] = "3"
        /\ calc_ret[2] = "."
        /\ \A j \in 3..Len(calc_ret) : IsDigitChar(calc_ret[j])

\* C2: the k-th value passed to the callback is min(9k, d); the values are
\* strictly increasing and never exceed d; a run that completes made
\* ceil(d / 9) callbacks, the last with value d.
C2_ProgressValues ==
    /\ \A j \in 1..Len(reported) :
          /\ reported[j] = Min(9 * j, digits)
          /\ reported[j] <= digits
          /\ j > 1 => reported[j - 1] < reported[j]
    /\ (calc_pc = "done" /\ AllTrue(answers) /\ digits >= 1) =>
          /\ Len(reported) = (digits + 8) \div 9
          /\ reported[Len(reported)] = digits

C2_Witness ==
    calc_pc = "done" /\ digits = 10 /\ reported = <<9, 10>> /\ AllTrue(answers)

\* C3: once a callback has returned false, calc_pi has returned the empty
\* string, that callback was the last one and at() was called once per
\* callback, never again; a non-empty string is returned only when every
\* callback returned true.
C3_Cancel ==
    /\ (\E j \in 1..Len(answers) : ~answers[j]) =>
          /\ calc_pc = "done"
          /\ calc_ret = <<>>
          /\ \A j \in 1..(Len(answers) - 1) : answers[j]
          /\ Len(at_calls) = Len(answers)
          /\ Len(reported) = Len(answers)
    /\ (calc_pc = "done" /\ calc_ret # <<>>) => AllTrue(answers)

C3_Witness ==
    calc_pc = "done" /\ answers = <<TRUE, FALSE>> /\ digits > 18 /\ calc_ret = <<>>

\* C4 as stated: at most one task is running (launched, future not ready).
C4_Claim == Cardinality(AliveTasks) <= 1

\* C4 amended: at most one task is executing statements 258-269; the button
\* is enabled only while none is; two tasks are alive only while the click
\* handler is blocked in the assignment to pi_future and the older of them
\* has nothing left but its return.
C4_OneComputation ==
    /\ Cardinality(BodyTasks) <= 1
    /\ btn_enabled => BodyTasks = {}
    /\ Cardinality(AliveTasks) <= 2
    /\ \A w1, w2 \in AliveTasks :
          w1 < w2 => (task_pc[w1] = "return" /\ gui = "click_assign")

C4_Witness ==
    \E w1, w2 \in Tasks :
        /\ w1 < w2
        /\ task_pc[w1] = "return"
        /\ task_pc[w2] = "progress"

\* C5 as stated: when the unload handler has returned no task is running.
C5_Claim == gui = "closed" => AliveTasks = {}

\* C5 amended: when the unload handler has returned no task is executing
\* statements 258-269 (a task may still have its return left); if the handler
\* found the button disabled it returned only after the task had exited; the
\* widgets are destroyed only when no task is alive.
C5_UnloadWaits ==
    /\ gui = "closed" => BodyTasks = {}
    /\ (gui = "closed" /\ unloaded) => AliveTasks = {}
    /\ gui = "released" => AliveTasks = {}

C5_Witness ==
    /\ gui = "closed"
    /\ unloaded
    /\ \E w \in Tasks :
          /\ task_pc[w] = "exited"
          /\ task_pi[w] = "empty"
          /\ task_i[w] + BlockLen < task_digits[w]

\* C6: for 1 <= x < y with gcd(x, y) = 1, inv_mod(x, y) returns r with
\* 0 <= r < y and (r * x) mod y = 1.
C6_InvMod ==
    (inv_pc = "done" /\ inv_x < inv_y /\ GCD(inv_x, inv_y) = 1) =>
        /\ 0 <= inv_r
        /\ inv_r < inv_y
        /\ (inv_r * inv_x) % inv_y = 1

C6_Witness == inv_pc = "done" /\ inv_x = 3 /\ inv_y = 7 /\ inv_r = 5

\* C7: for a >= 0, b >= 0, m > 0, pow_mod(a, b, m) is in [0, m) and equals
\* a^b mod m computed by repeated multiplication.
C7_Claim ==
    pow_pc = "done" =>
        /\ 0 <= pow_r
        /\ pow_r < pow_m
        /\ pow_r = RefPow(pow_a, pow_b, pow_m)

\* C8: at(1) returns 141592653 and at(10) returns 589793238; the primes the
\* sum runs over are the odd primes a <= 2N; the accumulated sum is not
\* within 1e-5 of a boundary of floor(sum * 1e9), so rounding of the
\* accumulator cannot change the returned value.
C8_KnownValues ==
    /\ at_pc = "k" => (IsOddPrime(at_a) /\ at_a <= 2 * at_N)
    /\ (at_pc = "done" /\ at_n = 1) =>
          /\ at_N = 69
          /\ at_ret = 141592653
          /\ at_sum[2] > 10000 /\ at_sum[2] < Limb - 10000
    /\ (at_pc = "done" /\ at_n = 10) =>
          /\ at_N = 99
          /\ at_ret = 589793238
          /\ at_sum[2] > 10000 /\ at_sum[2] < Limb - 10000

C8_Witness == at_pc = "done" /\ at_n = 10 /\ at_ret = 589793238

\* C9: after iteration k, whenever v > 0 (inv_mod(den, av) is called), den
\* satisfies 1 <= den < av and gcd(den, av) = 1; before iteration k, kq2
\* equals a exactly when a divides 2k-1, and the factor multiplied into den
\* is not divisible by a.
C9_DenInvertible ==
    /\ (at_pc = "k" /\ at_v > 0) =>
          /\ 1 <= at_den
          /\ at_den < at_av
          /\ GCD(at_den, at_av) = 1
    /\ (at_pc = "k" /\ at_k <= at_N) =>
          /\ (at_kq2 = at_a) <=> ((2 * at_k - 1) % at_a = 0)
          /\ DenStep(at_k, at_v, at_kq2, at_a).t % at_a # 0

C9_Witness ==
    at_pc = "k" /\ at_a = 3 /\ at_k = 6 /\ at_v = 2 /\ at_den > 1

\* C10: after iteration k the valuation counter satisfies 0 <= v <= vmax,
\* where vmax >= 1 is the largest e with a^e <= 2N and av = a^vmax <= 2N, so
\* the scaling loop runs vmax - v >= 0 times.
C10_Valuation ==
    at_pc = "k" =>
        /\ 0 <= at_v
        /\ at_v <= at_vmax
        /\ at_vmax >= 1
        /\ at_av = IPow(at_a, at_vmax)
        /\ at_av <= 2 * at_N
        /\ at_av * at_a > 2 * at_N

C10_Witness == at_pc = "k" /\ at_k > 1 /\ at_v > 0 /\ at_v < at_vmax

====
